---- MODULE Spec2Model ----
(***************************************************************************)
(* Model of elasticutils.contrib.django: the settings-driven index         *)
(* registry (ES_INDEXES, ES_ALIAS_MAP), the ElasticSearchBuilder lifecycle *)
(* operations and the two management commands, run against a search        *)
(* cluster that holds indexes, aliases, mappings and documents.            *)
(*                                                                         *)
(* One operator process issues calls.  A call is translated into the       *)
(* sequence of steps its code performs; every request to the cluster is    *)
(* one step, so every cluster state a concurrent reader could observe      *)
(* while a call runs is a state of the model.                              *)
(***************************************************************************)
EXTENDS Integers, Sequences, FiniteSets, TLC

VARIABLES
    ES_INDEXES,      \* settings.ES_INDEXES: logical name -> value
    ES_ALIAS_MAP,    \* settings.ES_ALIAS_MAP: logical name -> string
    mro,             \* per mapping type: the base class listed first
    override_index,  \* Indexable.override_index, per mapping type
    exists,          \* cluster: the indexes that exist
    aliases,         \* cluster: set of <<index, alias>> bindings
    mappings,        \* cluster: set of <<index, doctype>> mappings
    docs,            \* cluster: set of <<index, doctype, id>> documents
    jobs,            \* task queue: mapping types handed to index_objects.delay
    call,            \* the operator's current (or last) call and its arguments
    todo,            \* the steps of the call still to run
    status,          \* "idle", "running", "returned", "raised", "exited"
    exc,             \* the exception that ended the call and the step it came from
    pre,             \* the cluster as it was when the call began
    alias_reqs,      \* the alias-actions requests issued by the call, in order
    dispatched,      \* the mapping types the call handed to index_objects
    warned,          \* the indexes the call logged as "Could not find"
    progress,        \* the number of steps of the call that completed
    ncalls,          \* calls begun so far
    result           \* the value a registry lookup returned

vars == <<ES_INDEXES, ES_ALIAS_MAP, mro, override_index, exists, aliases,
          mappings, docs, jobs, call, todo, status, exc, pre, alias_reqs,
          dispatched, warned, progress, ncalls, result>>

settingsVars == <<ES_INDEXES, ES_ALIAS_MAP, mro>>
clusterVars == <<exists, aliases, mappings, docs>>

----------------------------------------------------------------------------
(* Bounds *)

\* calls the operator makes in one behaviour
MaxCalls == 2
\* primary keys 1..MaxId exist for every model
MaxId == 2

None == "None"

----------------------------------------------------------------------------
(* Settings values.  A value of ES_INDEXES is a string or a list of strings *)

Str(s) == [kind |-> "str", items |-> <<s>>]
Lst(q) == [kind |-> "list", items |-> q]
NoneVal == [kind |-> "none", items |-> <<>>]

\* Python truthiness of a settings value (the operand of `or`)
Truthy(v) ==
    CASE v.kind = "str" -> v.items[1] # ""
      [] v.kind = "list" -> Len(v.items) > 0
      [] OTHER -> FALSE

\* dict.get(key): the value, or None
DictGet(d, key) == IF key \in DOMAIN d THEN d[key] ELSE NoneVal

\* the string a value passes to the cluster as an index or alias name
NameOf(v) == IF v.kind = "str" THEN v.items[1] ELSE None

Ok(v) == [exc |-> "none", val |-> v]
Raised(e) == [exc |-> e, val |-> NoneVal]

----------------------------------------------------------------------------
(* Mapping types and the backing store *)

\* the Indexable MappingType classes the search modules define, in the
\* order inspect.getmembers lists them (sorted by class name)
Discovered == <<"CommentType", "PostType">>
Types == {Discovered[i] : i \in 1..Len(Discovered)}

MROs == {"MappingType", "Indexable"}

\* cls.get_model()._meta.db_table
get_mapping_type_name(t) == IF t = "PostType" THEN "posts" ELSE "comments"

\* model.objects.all().values_list("id", flat=True)
Ids(t) == 1..MaxId

----------------------------------------------------------------------------
(* Index registry lookups *)

MappingType_get_index(t) ==
    LET got == DictGet(ES_INDEXES, get_mapping_type_name(t))
    IN  IF ~Truthy(got) /\ "default" \notin DOMAIN ES_INDEXES
        THEN Raised("KeyError")
        ELSE LET index == IF Truthy(got) THEN got ELSE ES_INDEXES["default"]
             IN  IF index.kind = "str" THEN Ok(index)
                 ELSE IF index.kind = "list" /\ Len(index.items) > 0
                      THEN Ok(Str(index.items[1]))
                      ELSE Raised(IF index.kind = "list" THEN "IndexError"
                                  ELSE "TypeError")

Indexable_get_index(t) == Ok(DictGet(ES_INDEXES, "default"))

\* a class deriving from both inherits get_index from the base listed first
get_index(t) ==
    IF mro[t] = "MappingType" THEN MappingType_get_index(t)
    ELSE Indexable_get_index(t)

S_get_indexes(t) ==
    LET got == DictGet(ES_INDEXES, get_mapping_type_name(t))
    IN  IF ~Truthy(got) /\ "default" \notin DOMAIN ES_INDEXES
        THEN Raised("KeyError")
        ELSE LET indexes == IF Truthy(got) THEN got ELSE ES_INDEXES["default"]
             IN  IF indexes.kind = "str" THEN Ok(Lst(indexes.items))
                 ELSE Ok(indexes)

----------------------------------------------------------------------------
(* The cluster, as the pyelasticsearch client calls act on it.  A request  *)
(* is applied atomically or rejected whole.                                *)

Cluster == [exists |-> exists, aliases |-> aliases,
            mappings |-> mappings, docs |-> docs]

EmptyCluster == [exists |-> {}, aliases |-> {}, mappings |-> {}, docs |-> {}]

AliasNames(c) == {b[2] : b \in c.aliases}

\* the indexes a name stands for: the index itself, or the alias's indexes
Resolve(c, n) ==
    IF n \in c.exists THEN {n} ELSE {b[1] : b \in {x \in c.aliases : x[2] = n}}

Accepted(c) == [c |-> c, err |-> "none"]
Rejected(e, c) == [c |-> c, err |-> e]

\* es.create_index(index_name, settings_)
es_create_index(c, i) ==
    IF i \in c.exists \/ i \in AliasNames(c) \/ i = None
    THEN Rejected("ElasticHttpError", c)
    ELSE Accepted([c EXCEPT !.exists = @ \cup {i}])

\* es.delete_index(index)
es_delete_index(c, n) ==
    LET gone == Resolve(c, n)
    IN  IF gone = {} THEN Rejected("ElasticHttpNotFoundError", c)
        ELSE Accepted([exists |-> c.exists \ gone,
                       aliases |-> {b \in c.aliases : b[1] \notin gone},
                       mappings |-> {m \in c.mappings : m[1] \notin gone},
                       docs |-> {d \in c.docs : d[1] \notin gone}])

\* es.put_mapping(index, mapping_name, mapping)
es_put_mapping(c, n, doctype) ==
    LET target == Resolve(c, n)
    IN  IF target = {} THEN Rejected("ElasticHttpNotFoundError", c)
        ELSE Accepted([c EXCEPT !.mappings =
                           @ \cup {<<i, doctype>> : i \in target}])

Add(index, alias) == [index |-> index, alias |-> alias, op |-> "add"]
Remove(index, alias) == [index |-> index, alias |-> alias, op |-> "remove"]

\* one action of an alias-actions request, on the bindings built so far;
\* removing a binding that is not there changes nothing
ApplyAliasAction(bound, a) ==
    IF a.op = "add" THEN bound \cup {<<a.index, a.alias>>}
    ELSE bound \ {<<a.index, a.alias>>}

RECURSIVE ApplyAliasActions(_, _)
ApplyAliasActions(bound, acts) ==
    IF acts = <<>> THEN bound
    ELSE ApplyAliasActions(ApplyAliasAction(bound, Head(acts)), Tail(acts))

\* es.update_aliases({"actions": [...]}): all the actions take effect in one
\* cluster-state update, or none does
es_update_aliases(c, acts) ==
    LET range == {acts[k] : k \in 1..Len(acts)}
    IN  IF \E a \in range : a.index \notin c.exists
        THEN Rejected("ElasticHttpNotFoundError", c)
        ELSE IF \E a \in range : a.op = "add" /\ (a.alias \in c.exists \/ a.alias = None)
        THEN Rejected("ElasticHttpError", c)
        ELSE IF \A a \in range : a.op = "remove" /\ <<a.index, a.alias>> \notin c.aliases
        THEN Rejected("ElasticHttpNotFoundError", c)
        ELSE Accepted([c EXCEPT !.aliases = ApplyAliasActions(@, acts)])

\* the bulk-index request index_objects sends for `ids` of `doctype` to the
\* name `n`; a name that is neither index nor alias is created as an index
es_bulk_index(c, n, doctype, ids) ==
    LET target == Resolve(c, n)
    IN  IF n = None \/ Cardinality(target) > 1 THEN Rejected("ElasticHttpError", c)
        ELSE LET i == IF target = {} THEN n ELSE CHOOSE x \in target : TRUE
             IN  Accepted([c EXCEPT !.exists = @ \cup {i},
                                    !.docs = @ \cup {<<i, doctype, id>> : id \in ids}])

----------------------------------------------------------------------------
(* Steps: what a call does, in program order *)

StepOf(k, index, type, acts, flag) ==
    [index |-> index, acts |-> acts, k |-> k, type |-> type, flag |-> flag]

EsCreateIndex(i) == StepOf("create_index", i, None, <<>>, FALSE)
\* flag: the call sits in a try block that catches ElasticHttpNotFoundError
EsDeleteIndex(i, caught) == StepOf("delete_index", i, None, <<>>, caught)
EsPutMapping(i, doctype) == StepOf("put_mapping", i, doctype, <<>>, FALSE)
EsUpdateAliases(acts) == StepOf("update_aliases", None, None, acts, FALSE)
SetOverride(t, i) == StepOf("set_override", i, t, <<>>, FALSE)
\* flag: delay
IndexObjects(t, delay) == StepOf("index_objects", None, t, <<>>, delay)
Raise(e) == StepOf("raise", e, None, <<>>, FALSE)
SysExit == StepOf("sys_exit", None, None, <<>>, FALSE)

RECURSIVE Concat(_)
Concat(ss) == IF ss = <<>> THEN <<>> ELSE Head(ss) \o Concat(Tail(ss))

\* the orders in which a dict of these keys can be iterated
RECURSIVE Orders(_)
Orders(S) ==
    IF S = {} THEN {<<>>}
    ELSE UNION {{<<x>> \o q : q \in Orders(S \ {x})} : x \in S}

----------------------------------------------------------------------------
(* ElasticSearchBuilder *)

make_alias(index, alias) ==
    << EsUpdateAliases(<<Add(index, alias)>>) >>

\* faulty variant: the pair sent as two requests
move_alias_two_requests(index_from, index_to, alias) ==
    << EsUpdateAliases(<<Remove(index_from, alias)>>),
       EsUpdateAliases(<<Add(index_to, alias)>>) >>

move_alias(index_from, index_to, alias) ==
    << EsUpdateAliases(<<Remove(index_from, alias), Add(index_to, alias)>>) >>

\* faulty variant: the exception of a missing index is not caught
delete_indexes_uncaught(order) ==
    [k \in 1..Len(order) |-> EsDeleteIndex(ES_ALIAS_MAP[order[k]], FALSE)]

\* `order`: the iteration order of settings.ES_ALIAS_MAP.items()
delete_indexes(order) ==
    [k \in 1..Len(order) |-> EsDeleteIndex(ES_ALIAS_MAP[order[k]], TRUE)]

create_index(index_name, make_alias_, name) ==
    <<EsCreateIndex(index_name)>> \o
    (IF ~make_alias_ THEN <<>>
     ELSE IF name \notin DOMAIN ES_INDEXES THEN <<Raise("KeyError")>>
     ELSE make_alias(index_name, NameOf(ES_INDEXES[name])))

\* `index_names`: a set of logical names, empty when none is given;
\* `order`: the iteration order of the dict `indexes`
create_indexes(index_names, make_aliases, order) ==
    IF \E n \in index_names : n \notin DOMAIN ES_INDEXES
    THEN <<Raise("KeyError")>>
    ELSE Concat([k \in 1..Len(order) |->
            create_index(IF index_names = {} THEN ES_ALIAS_MAP[order[k]]
                         ELSE NameOf(ES_INDEXES[order[k]]),
                         make_aliases, order[k])])

create_mapping(t, index) ==
    IF index # None /\ index # ""
    THEN <<EsPutMapping(index, get_mapping_type_name(t))>>
    ELSE IF get_index(t).exc # "none" THEN <<Raise(get_index(t).exc)>>
    ELSE <<EsPutMapping(NameOf(get_index(t).val), get_mapping_type_name(t))>>

\* the list `documents` that update builds
update_documents(t) == Ids(t)

update(t, delay) == <<IndexObjects(t, delay)>>

reindex(t, delay, index) ==
    IF index = None /\ get_index(t).exc # "none" THEN <<Raise(get_index(t).exc)>>
    ELSE update(t, delay)

\* item.get_mapping_type_name in doctypes: the bound method itself, never
\* called, is looked up among the given strings
update_doctypes_selects(t, doctypes) == FALSE

\* cls.update_doctype is not an attribute of ElasticSearchBuilder
update_doctypes(doctypes) ==
    IF \E k \in 1..Len(Discovered) :
           doctypes = {} \/ update_doctypes_selects(Discovered[k], doctypes)
    THEN <<Raise("AttributeError")>>
    ELSE <<>>

\* the keys `name` can end the loop of migrate with: `val is alias` holds
\* for the entry the alias was read from, and may hold for another entry
\* with an equal string; a string taken out of a list is identical to no
\* entry itself
migrate_names(t) ==
    LET gi == get_index(t)
        byString == {key \in DOMAIN ES_INDEXES :
                        gi.val.kind = "str" /\ ES_INDEXES[key] = gi.val}
        own == IF mro[t] = "MappingType"
               THEN LET n == get_mapping_type_name(t)
                    IN  IF Truthy(DictGet(ES_INDEXES, n)) THEN n ELSE "default"
               ELSE "default"
    IN  IF gi.exc # "none" THEN {None}
        ELSE IF own \in byString THEN byString
        ELSE byString \cup {None}

\* faulty variant: the new index is created with make_alias=True for `name`
migrate_create_with_alias(new_index_name, name) ==
    create_index(new_index_name, TRUE, name)

\* cls.create_index(new_index_name, settings_=None, make_alias=False)
migrate_create(new_index_name, name) ==
    create_index(new_index_name, FALSE, None)

\* faulty variant: override_index is left as it was
migrate_override_unset(t, new_index_name) == override_index[t]

\* the value migrate assigns to mapping_type.override_index
migrate_override(t, new_index_name) == new_index_name

\* faulty variant: the alias is moved before the new index is mapped and populated
migrate_steps_swap_first(create, point, map, populate, swap) ==
    create \o swap \o point \o map \o populate

\* the order of the statements of migrate
migrate_steps(create, point, map, populate, swap) ==
    create \o point \o map \o populate \o swap

\* `name`: the key the loop over ES_INDEXES ended with (None: no match)
migrate(t, new_index_name, name) ==
    IF get_index(t).exc # "none" THEN <<Raise(get_index(t).exc)>>
    ELSE IF name \notin DOMAIN ES_INDEXES THEN <<Raise("KeyError")>>
    ELSE migrate_steps(
            migrate_create(new_index_name, name),
            <<SetOverride(t, migrate_override(t, new_index_name))>>,
            create_mapping(t, new_index_name),
            update(t, FALSE),
            IF name \in DOMAIN ES_ALIAS_MAP
            THEN move_alias(ES_ALIAS_MAP[name], new_index_name,
                            NameOf(get_index(t).val))
            ELSE <<Raise("KeyError")>>)

----------------------------------------------------------------------------
(* Management commands *)

Lower(ch) ==
    CASE ch = "Y" -> "y" [] ch = "N" -> "n" [] ch = "O" -> "o" [] OTHER -> ch

lower(str) == [k \in 1..Len(str) |-> Lower(str[k])]

startswith(str, ch) == Len(str) > 0 /\ str[1] = ch

\* faulty variant: only an answer that starts with 'n' declines
declined_only_n(yes_or_no) == startswith(lower(yes_or_no), "n")

\* not yes_or_no.lower().startswith('y')
declined(yes_or_no) == ~startswith(lower(yes_or_no), "y")

\* create_index: Command.handle
create_index_handle(clear, yes_or_no, order) ==
    IF clear /\ declined(yes_or_no) THEN <<SysExit>>
    ELSE (IF clear THEN delete_indexes(order) ELSE <<>>)
         \o create_indexes({}, TRUE, order)
         \o Concat([k \in 1..Len(Discovered) |->
                        create_mapping(Discovered[k], None)])

\* the process exit status: sys.exit() without an argument is status 0, an
\* exception that escapes the command is status 1
exit_status == IF status = "raised" THEN 1 ELSE 0

\* options.get(key): the parsed options hold the key "doctype" only; a
\* missing key gives None, which is as false as the empty list
options_get(options, key) == IF key \in DOMAIN options THEN options[key] ELSE {}

\* update_indexes: Command.handle
update_indexes_handle(options) ==
    LET update_all == options_get(options, "indexes") = {}
    IN  Concat([k \in 1..Len(Discovered) |->
            IF update_all
               \/ get_mapping_type_name(Discovered[k]) \in options_get(options, "indexes")
            THEN <<IndexObjects(Discovered[k], FALSE)>>
            ELSE <<>>])

----------------------------------------------------------------------------
(* Bulk indexing dispatcher: index_objects(mapping_type, ids) *)

\* the name the documents of a mapping type are written to
index_objects_target(t, ov) ==
    IF ov[t] # None THEN Ok(Str(ov[t])) ELSE get_index(t)

index_objects(c, ov, t, ids) ==
    LET target == index_objects_target(t, ov)
    IN  IF target.exc # "none" THEN Rejected(target.exc, c)
        ELSE es_bulk_index(c, NameOf(target.val), get_mapping_type_name(t), ids)

----------------------------------------------------------------------------
(* Running a step *)

NoExc == [name |-> "none", at |-> "none"]
NoCall == [index |-> None, alias |-> None, op |-> "none", type |-> None,
           flag |-> FALSE, index2 |-> None, names |-> {}, answer |-> <<>>]
NoResult == [exc |-> "none", val |-> NoneVal, type |-> None, fn |-> "none"]

\* the effect of a step on the cluster
ClusterStep(c, ov, s) ==
    CASE s.k = "create_index" -> es_create_index(c, s.index)
      [] s.k = "delete_index" -> es_delete_index(c, s.index)
      [] s.k = "put_mapping" -> es_put_mapping(c, s.index, s.type)
      [] s.k = "update_aliases" -> es_update_aliases(c, s.acts)
      [] s.k = "index_objects" ->
            IF s.flag THEN Accepted(c)
            ELSE index_objects(c, ov, s.type, update_documents(s.type))
      [] s.k = "raise" -> Rejected(s.index, c)
      [] OTHER -> Accepted(c)

Caught(s, r) ==
    s.k = "delete_index" /\ s.flag /\ r.err = "ElasticHttpNotFoundError"

\* the cluster after a command's steps ran from cluster c, nothing overridden
RECURSIVE ClusterAfter(_, _)
ClusterAfter(c, steps) ==
    IF steps = <<>> \/ Head(steps).k = "sys_exit" THEN c
    ELSE LET r == ClusterStep(c, [t \in Types |-> None], Head(steps))
         IN  IF r.err # "none" /\ ~Caught(Head(steps), r) THEN r.c
             ELSE ClusterAfter(r.c, Tail(steps))

SetCluster(c) ==
    /\ exists' = c.exists
    /\ aliases' = c.aliases
    /\ mappings' = c.mappings
    /\ docs' = c.docs

Advance ==
    /\ todo' = Tail(todo)
    /\ status' = IF Len(todo) = 1 THEN "returned" ELSE "running"
    /\ progress' = progress + 1
    /\ exc' = exc

Abort(e, at) ==
    /\ todo' = <<>>
    /\ status' = "raised"
    /\ progress' = progress
    /\ exc' = [name |-> e, at |-> at]

Running(k) == status = "running" /\ todo # <<>> /\ Head(todo).k = k

callVars == <<call, pre, ncalls, result>>

\* es.create_index(index_name, settings_)
StepCreateIndex ==
    /\ Running("create_index")
    /\ LET r == ClusterStep(Cluster, override_index, Head(todo))
       IN  /\ SetCluster(r.c)
           /\ IF r.err = "none" THEN Advance ELSE Abort(r.err, Head(todo).k)
    /\ UNCHANGED <<settingsVars, override_index, jobs, callVars, alias_reqs,
                   dispatched, warned>>

\* es.put_mapping(index, mapping_name, mapping)
StepPutMapping ==
    /\ Running("put_mapping")
    /\ LET r == ClusterStep(Cluster, override_index, Head(todo))
       IN  /\ SetCluster(r.c)
           /\ IF r.err = "none" THEN Advance ELSE Abort(r.err, Head(todo).k)
    /\ UNCHANGED <<settingsVars, override_index, jobs, callVars, alias_reqs,
                   dispatched, warned>>

\* es.delete_index inside try ... except ElasticHttpNotFoundError: log.warn
StepDeleteIndex ==
    /\ Running("delete_index")
    /\ LET r == ClusterStep(Cluster, override_index, Head(todo))
       IN  /\ SetCluster(r.c)
           /\ IF r.err = "none" \/ Caught(Head(todo), r) THEN Advance
              ELSE Abort(r.err, "delete_index")
           /\ warned' = IF Caught(Head(todo), r) THEN warned \cup {Head(todo).index}
                        ELSE warned
    /\ UNCHANGED <<settingsVars, override_index, jobs, callVars, alias_reqs,
                   dispatched>>

\* es.update_aliases: one alias-actions request
StepUpdateAliases ==
    /\ Running("update_aliases")
    /\ LET r == ClusterStep(Cluster, override_index, Head(todo))
       IN  /\ SetCluster(r.c)
           /\ IF r.err = "none" THEN Advance ELSE Abort(r.err, "update_aliases")
    /\ alias_reqs' = Append(alias_reqs, Head(todo).acts)
    /\ UNCHANGED <<settingsVars, override_index, jobs, callVars, dispatched, warned>>

\* mapping_type.override_index = new_index_name
StepSetOverride ==
    /\ Running("set_override")
    /\ override_index' = [override_index EXCEPT ![Head(todo).type] = Head(todo).index]
    /\ Advance
    /\ UNCHANGED <<settingsVars, clusterVars, jobs, callVars, alias_reqs,
                   dispatched, warned>>

\* index_objects(mapping_type, documents), or index_objects.delay(...)
StepIndexObjects ==
    /\ Running("index_objects")
    /\ LET r == ClusterStep(Cluster, override_index, Head(todo))
       IN  /\ SetCluster(r.c)
           /\ IF r.err = "none" THEN Advance ELSE Abort(r.err, "index_objects")
    /\ jobs' = IF Head(todo).flag THEN jobs \cup {Head(todo).type} ELSE jobs
    /\ dispatched' = dispatched \cup {Head(todo).type}
    /\ UNCHANGED <<settingsVars, override_index, callVars, alias_reqs, warned>>

\* an exception raised by the program itself (KeyError, AttributeError, ...)
StepRaise ==
    /\ Running("raise")
    /\ Abort(Head(todo).index, "raise")
    /\ UNCHANGED <<settingsVars, override_index, clusterVars, jobs, callVars,
                   alias_reqs, dispatched, warned>>

\* sys.exit()
StepSysExit ==
    /\ Running("sys_exit")
    /\ todo' = <<>>
    /\ status' = "exited"
    /\ UNCHANGED <<settingsVars, override_index, clusterVars, jobs, callVars,
                   alias_reqs, dispatched, warned, exc, progress>>

ClusterRequestKinds ==
    {"create_index", "delete_index", "put_mapping", "update_aliases", "index_objects"}

\* the request does not reach the cluster: pyelasticsearch raises
\* ConnectionError (or Timeout), which no code here catches
Fault ==
    /\ status = "running" /\ todo # <<>>
    /\ Head(todo).k \in ClusterRequestKinds
    /\ ~(Head(todo).k = "index_objects" /\ Head(todo).flag)
    /\ Abort("ConnectionError", Head(todo).k)
    /\ UNCHANGED <<settingsVars, override_index, clusterVars, jobs, callVars,
                   alias_reqs, dispatched, warned>>

----------------------------------------------------------------------------
(* Calls *)

NewNames == {"site_posts_v2", "site_posts_v3"}
Answers == {<<>>, <<"n">>, <<"Y", "e", "s">>}
Doctypes == {{}, {"posts"}, {"comments"}}

AliasMapIndexes == {ES_ALIAS_MAP[n] : n \in DOMAIN ES_ALIAS_MAP}
RegistryNames == {NameOf(ES_INDEXES[n]) : n \in DOMAIN ES_INDEXES}

CallOf(op, type, index, index2, alias, names, flag, answer) ==
    [index |-> index, alias |-> alias, op |-> op, type |-> type,
     flag |-> flag, index2 |-> index2, names |-> names, answer |-> answer]

Begin(c, steps) ==
    /\ status = "idle"
    /\ ncalls < MaxCalls
    /\ call' = c
    /\ todo' = steps
    /\ status' = IF steps = <<>> THEN "returned" ELSE "running"
    /\ exc' = NoExc
    /\ pre' = Cluster
    /\ alias_reqs' = <<>>
    /\ dispatched' = {}
    /\ warned' = {}
    /\ progress' = 0
    /\ ncalls' = ncalls + 1
    /\ UNCHANGED <<settingsVars, override_index, clusterVars, jobs, result>>

\* the operator has the call's outcome and is ready for the next call
Return ==
    /\ status \in {"returned", "raised", "exited"}
    /\ status' = "idle"
    /\ call' = NoCall
    /\ exc' = NoExc
    /\ pre' = EmptyCluster
    /\ alias_reqs' = <<>>
    /\ dispatched' = {}
    /\ warned' = {}
    /\ progress' = 0
    /\ UNCHANGED <<settingsVars, override_index, clusterVars, jobs, todo,
                   ncalls, result>>

CallDeleteIndexes ==
    \E order \in Orders(DOMAIN ES_ALIAS_MAP) :
        Begin(CallOf("delete_indexes", None, None, None, None, {}, FALSE, <<>>),
              delete_indexes(order))

CallCreateIndexes ==
    \E names \in {{}, {"posts"}, {"comments"}}, make_aliases \in BOOLEAN :
        \E order \in Orders(IF names = {} THEN DOMAIN ES_ALIAS_MAP ELSE names) :
            Begin(CallOf("create_indexes", None, None, None, None, names,
                         make_aliases, <<>>),
                  create_indexes(names, make_aliases, order))

CallCreateIndex ==
    \E index_name \in AliasMapIndexes \cup {"site_posts_v2"},
       name \in {None, "posts"} :
        Begin(CallOf("create_index", None, index_name, None, name, {},
                     name # None, <<>>),
              create_index(index_name, name # None, name))

CallCreateMapping ==
    \E t \in Types, index \in {None, "site_posts_v2"} :
        Begin(CallOf("create_mapping", t, index, None, None, {}, FALSE, <<>>),
              create_mapping(t, index))

CallUpdate ==
    \E t \in Types, delay \in BOOLEAN :
        Begin(CallOf("update", t, None, None, None, {}, delay, <<>>),
              update(t, delay))

CallReindex ==
    \E t \in Types :
        Begin(CallOf("reindex", t, None, None, None, {}, FALSE, <<>>),
              reindex(t, FALSE, None))

CallUpdateDoctypes ==
    \E doctypes \in Doctypes :
        Begin(CallOf("update_doctypes", None, None, None, None, doctypes,
                     FALSE, <<>>),
              update_doctypes(doctypes))

CallMakeAlias ==
    \E index \in NewNames, alias \in RegistryNames :
        Begin(CallOf("make_alias", None, index, None, alias, {}, FALSE, <<>>),
              make_alias(index, alias))

CallMoveAlias ==
    \E index_from \in AliasMapIndexes, index_to \in NewNames,
       alias \in RegistryNames :
        Begin(CallOf("move_alias", None, index_from, index_to, alias, {},
                     FALSE, <<>>),
              move_alias(index_from, index_to, alias))

CallMigrate ==
    \E t \in Types, new_index_name \in NewNames :
        \E name \in migrate_names(t) :
            Begin(CallOf("migrate", t, new_index_name, None, name, {},
                         FALSE, <<>>),
                  migrate(t, new_index_name, name))

CallCreateIndexCommand ==
    \E clear \in BOOLEAN, yes_or_no \in Answers :
        \E order \in Orders(DOMAIN ES_ALIAS_MAP) :
            /\ clear \/ yes_or_no = <<>>
            /\ Begin(CallOf("create_index_command", None, None, None, None, {},
                            clear, yes_or_no),
                     create_index_handle(clear, yes_or_no, order))

CallUpdateIndexesCommand ==
    \E doctype \in Doctypes :
        Begin(CallOf("update_indexes_command", None, None, None, None, doctype,
                     FALSE, <<>>),
              update_indexes_handle([doctype |-> doctype]))

----------------------------------------------------------------------------
(* Specification of the lifecycle *)

\* the registry of the end-to-end scenario, and one with an entry of
\* ES_ALIAS_MAP for every name that ES_INDEXES resolves to
Settings ==
    { [indexes |-> [n \in {"default", "posts"} |->
                        IF n = "default" THEN Str("site") ELSE Str("site_posts")],
       alias_map |-> [n \in {"posts"} |-> "posts_alias"]],
      [indexes |-> [n \in {"default", "posts"} |->
                        IF n = "default" THEN Str("site") ELSE Str("site_posts")],
       alias_map |-> [n \in {"default", "posts"} |->
                        IF n = "default" THEN "site_alias" ELSE "posts_alias"]] }

\* the cluster the two commands leave behind when run on an empty cluster
Provisioned(order) ==
    ClusterAfter(
        ClusterAfter(EmptyCluster, create_index_handle(FALSE, <<>>, order)),
        update_indexes_handle([doctype |-> {}]))

Init ==
    /\ \E cfg \in Settings :
        /\ ES_INDEXES = cfg.indexes
        /\ ES_ALIAS_MAP = cfg.alias_map
    /\ \E m \in MROs : mro = [t \in Types |-> m]
    /\ override_index = [t \in Types |-> None]
    /\ \E c \in {EmptyCluster} \cup
                {Provisioned(order) : order \in Orders(DOMAIN ES_ALIAS_MAP)} :
        /\ exists = c.exists
        /\ aliases = c.aliases
        /\ mappings = c.mappings
        /\ docs = c.docs
    /\ jobs = {}
    /\ call = NoCall
    /\ todo = <<>>
    /\ status = "idle"
    /\ exc = NoExc
    /\ pre = EmptyCluster
    /\ alias_reqs = <<>>
    /\ dispatched = {}
    /\ warned = {}
    /\ progress = 0
    /\ ncalls = 0
    /\ result = NoResult

Next ==
    \/ CallDeleteIndexes
    \/ CallCreateIndexes
    \/ CallCreateIndex
    \/ CallCreateMapping
    \/ CallUpdate
    \/ CallReindex
    \/ CallUpdateDoctypes
    \/ CallMakeAlias
    \/ CallMoveAlias
    \/ CallMigrate
    \/ CallCreateIndexCommand
    \/ CallUpdateIndexesCommand
    \/ StepCreateIndex
    \/ StepPutMapping
    \/ StepDeleteIndex
    \/ StepUpdateAliases
    \/ StepSetOverride
    \/ StepIndexObjects
    \/ StepRaise
    \/ StepSysExit
    \/ Fault
    \/ Return

Spec == Init /\ [][Next]_vars

----------------------------------------------------------------------------
(* Specification of the registry lookups: the settings are drawn with       *)
(* string values, list values and empty values, and every mapping type is   *)
(* declared with either base class first                                    *)

LookupDefaults == {Str("site"), Lst(<<"site", "site_b">>)}
LookupEntries == {NoneVal, Str("site_posts"), Lst(<<"site_posts", "site_b">>),
                  Str(""), Lst(<<>>)}

LookupGetIndex ==
    \E t \in Types :
        /\ result' = [exc |-> get_index(t).exc, val |-> get_index(t).val,
                      type |-> t, fn |-> "get_index"]
        /\ UNCHANGED <<settingsVars, override_index, clusterVars, jobs, call, todo,
                       status, exc, pre, alias_reqs, dispatched, warned, progress,
                       ncalls>>

LookupSGetIndexes ==
    \E t \in Types :
        /\ result' = [exc |-> S_get_indexes(t).exc, val |-> S_get_indexes(t).val,
                      type |-> t, fn |-> "S.get_indexes"]
        /\ UNCHANGED <<settingsVars, override_index, clusterVars, jobs, call, todo,
                       status, exc, pre, alias_reqs, dispatched, warned, progress,
                       ncalls>>

InitLookup ==
    /\ \E d \in LookupDefaults, e \in LookupEntries :
        ES_INDEXES = IF e = NoneVal
                     THEN [n \in {"default"} |-> d]
                     ELSE [n \in {"default", "posts"} |->
                               IF n = "default" THEN d ELSE e]
    /\ ES_ALIAS_MAP = [n \in {"posts"} |-> "posts_alias"]
    /\ mro \in [Types -> MROs]
    /\ override_index = [t \in Types |-> None]
    /\ exists = {}
    /\ aliases = {}
    /\ mappings = {}
    /\ docs = {}
    /\ jobs = {}
    /\ call = NoCall
    /\ todo = <<>>
    /\ status = "idle"
    /\ exc = NoExc
    /\ pre = EmptyCluster
    /\ alias_reqs = <<>>
    /\ dispatched = {}
    /\ warned = {}
    /\ progress = 0
    /\ ncalls = 0
    /\ result = NoResult

NextLookup == LookupGetIndex \/ LookupSGetIndexes

SpecLookup == InitLookup /\ [][NextLookup]_vars

----------------------------------------------------------------------------
(* Properties *)

Finished == status \in {"returned", "raised", "exited"}

\* the indexes a search for a mapping type reads: S(cls).get_indexes(),
\* each name resolved by the cluster
ReaderTargets(c, t) ==
    LET names == S_get_indexes(t).val.items
    IN  UNION {Resolve(c, names[k]) : k \in 1..Len(names)}

Populated(c, i, t) ==
    \A id \in Ids(t) : <<i, get_mapping_type_name(t), id>> \in c.docs

Mapped(c, i, t) == <<i, get_mapping_type_name(t)>> \in c.mappings

\* a search for the mapping type reaches an index, and every index it
\* reaches is mapped and holds every current document
Servable(c, t) ==
    /\ ReaderTargets(c, t) # {}
    /\ \A i \in ReaderTargets(c, t) : Populated(c, i, t) /\ Mapped(c, i, t)

\* C1: while move_alias(index_from, index_to, alias) runs on an alias bound
\* to index_from, and after it, the alias resolves to index_from or to
\* index_to and never to nothing, and the call issues at most one
\* alias-actions request: the remove and the add together.
C1_MoveAliasAtomic ==
    (call.op = "move_alias" /\ Resolve(pre, call.alias) = {call.index}) =>
        /\ Resolve(Cluster, call.alias) \in {{call.index}, {call.index2}}
        /\ Len(alias_reqs) <= 1
        /\ status = "returned" =>
              /\ alias_reqs = << <<Remove(call.index, call.alias),
                                   Add(call.index2, call.alias)>> >>
              /\ Resolve(Cluster, call.alias) = {call.index2}

C1_Witness ==
    /\ call.op = "move_alias"
    /\ Resolve(pre, call.alias) = {call.index}
    /\ status = "returned"
    /\ Resolve(Cluster, call.alias) = {call.index2}

C3_FailedMigrateLeavesAlias ==
    (/\ call.op = "migrate"
     /\ status = "raised"
     /\ exc.at \in {"create_index", "put_mapping", "index_objects"}) =>
        /\ alias_reqs = <<>>
        /\ aliases = pre.aliases

C3_Witness ==
    /\ call.op = "migrate"
    /\ status = "raised"
    /\ exc.at = "index_objects"
    /\ pre.aliases # {}
    /\ call.index \in exists
    /\ call.index \notin pre.exists

EndToEndIndexes ==
    [n \in {"default", "posts"} |->
        IF n = "default" THEN Str("site") ELSE Str("site_posts")]
EndToEndAliasMap == [n \in {"posts"} |-> "posts_alias"]

\* C4: with ES_INDEXES = {default: site, posts: site_posts} and
\* ES_ALIAS_MAP = {posts: posts_alias}, the alias swap that
\* migrate(PostType, site_posts_v2) issues removes posts_alias from
\* site_posts and adds posts_alias to site_posts_v2, and once migrate has
\* returned posts_alias resolves to site_posts_v2 alone.
C4_EndToEndSwap ==
    (/\ ES_INDEXES = EndToEndIndexes
     /\ ES_ALIAS_MAP = EndToEndAliasMap
     /\ call.op = "migrate"
     /\ call.type = "PostType"
     /\ call.index = "site_posts_v2"
     /\ alias_reqs # <<>>) =>
        /\ alias_reqs = << <<Remove("site_posts", "posts_alias"),
                             Add("site_posts_v2", "posts_alias")>> >>
        /\ status = "returned" =>
              Resolve(Cluster, "posts_alias") = {"site_posts_v2"}

\* C5: once migrate has created new_index_name, pointed override_index at
\* it, pushed the mapping and run update, every id of the mapping type is a
\* document of new_index_name.
C5_UpdatePopulatesNewIndex ==
    (/\ call.op = "migrate"
     /\ call.type \in dispatched
     /\ ~(status = "raised" /\ exc.at = "index_objects")) =>
        Populated(Cluster, call.index, call.type)

C5_Witness ==
    /\ call.op = "migrate"
    /\ call.type \in dispatched
    /\ status = "returned"
    /\ Populated(Cluster, call.index, call.type)
    /\ ~Populated(pre, call.index, call.type)

C7_GetIndexFollowsRegistry ==
    (/\ result.fn = "get_index"
     /\ \A n \in DOMAIN ES_INDEXES :
            ES_INDEXES[n].kind = "str" /\ Truthy(ES_INDEXES[n])) =>
        /\ result.exc = "none"
        /\ result.val =
              IF get_mapping_type_name(result.type) \in DOMAIN ES_INDEXES
              THEN ES_INDEXES[get_mapping_type_name(result.type)]
              ELSE ES_INDEXES["default"]

\* the names of a create_indexes call that have an index and an alias
C8_Requested ==
    (IF call.names = {} THEN DOMAIN ES_ALIAS_MAP ELSE call.names)
        \cap DOMAIN ES_INDEXES \cap DOMAIN ES_ALIAS_MAP

\* C8: when create_indexes(names, make_aliases=True) ends on a cluster that
\* was empty and reachable, it has returned and, for every requested name,
\* the name's alias resolves to exactly the name's physical index,
\* whichever of the two settings is read as the index and which as the
\* alias.
C8_CreateIndexesBindsAliases ==
    (/\ call.op = "create_indexes"
     /\ call.flag
     /\ call.names \subseteq DOMAIN ES_INDEXES
     /\ Finished
     /\ exc.name # "ConnectionError"
     /\ pre = EmptyCluster) =>
        /\ status = "returned"
        /\ \A n \in C8_Requested :
              \/ (/\ ES_ALIAS_MAP[n] \in exists
                  /\ Resolve(Cluster, NameOf(ES_INDEXES[n])) = {ES_ALIAS_MAP[n]})
              \/ (/\ NameOf(ES_INDEXES[n]) \in exists
                  /\ Resolve(Cluster, ES_ALIAS_MAP[n]) = {NameOf(ES_INDEXES[n])})

\* the operator's answer does not begin with y or Y
C9_NotConfirmed ==
    call.answer = <<>> \/ call.answer[1] \notin {"y", "Y"}

\* C9 as stated: create_index --clear without confirmation ends with a
\* non-zero exit status and the cluster as it was.
C9_DeclinedExitsNonZero ==
    (/\ call.op = "create_index_command"
     /\ call.flag
     /\ C9_NotConfirmed
     /\ Finished) =>
        /\ exit_status # 0
        /\ Cluster = pre

\* C9 amended: create_index --clear without confirmation ends by sys.exit()
\* with exit status 0, before any step: the cluster is as it was, no
\* request was issued and nothing was dispatched.
C9_DeclinedExitsZeroUnchanged ==
    (/\ call.op = "create_index_command"
     /\ call.flag
     /\ C9_NotConfirmed
     /\ status # "idle") =>
        /\ status \in {"running", "exited"}
        /\ status = "exited" => exit_status = 0
        /\ Cluster = pre
        /\ progress = 0
        /\ alias_reqs = <<>>
        /\ dispatched = {}
        /\ warned = {}

C9_Witness ==
    /\ call.op = "create_index_command"
    /\ call.flag
    /\ C9_NotConfirmed
    /\ status = "exited"
    /\ exists # {}
    /\ aliases # {}

\* C10: when the update_indexes command has returned, it has dispatched
\* bulk indexing for exactly the discovered types named by the given
\* doctype names, or for every discovered type when none was given.
C10_UpdateIndexesHonoursDoctypes ==
    (call.op = "update_indexes_command" /\ status = "returned") =>
        dispatched =
            IF call.names = {} THEN Types
            ELSE {t \in Types : get_mapping_type_name(t) \in call.names}

\* C11: when migrate calls on one mapping type run one after another with
\* distinct new index names, a later call that returns leaves the alias it
\* swaps bound to exactly one index, its own new_index_name, and no longer
\* to the new index of the earlier migration: the swap removes the alias
\* from the index it is bound to when the call begins.
C11_SequentialMigrationsRebind ==
    (/\ call.op = "migrate"
     /\ status = "returned"
     /\ alias_reqs # <<>>
     /\ \E earlier \in NewNames \ {call.index} :
            Resolve(pre, alias_reqs[1][2].alias) = {earlier}) =>
        Resolve(Cluster, alias_reqs[1][2].alias) = {call.index}

====
